---- MODULE Spec2Model ----
(***************************************************************************)
(* Model of the chat backend in src/index.js: the Socket.IO connection     *)
(* handler with its message / reaction / read / delete event handlers,     *)
(* the Mongoose Message collection they persist to, the io.emit fan-out    *)
(* to the connected sockets, and the call to the completion service for    *)
(* messages addressed to "ugoai".                                          *)
(*                                                                         *)
(* Every "await" of a handler is a suspension point: the handler is split  *)
(* into one action per segment between two awaits, and the segments of     *)
(* different handlers interleave freely (Node runs one segment at a time). *)
(* A write a handler has sent is carried out by the database in a step of  *)
(* its own; the handler's continuation runs in a later step.               *)
(***************************************************************************)
EXTENDS Integers, Sequences, FiniteSets, TLC

\* ------------------------------------------------------------------ bounds
MaxEvents == 2      \* inbound socket events handled in one behaviour
MaxSessions == 2    \* sockets that connect in one behaviour
MaxAiCalls == 1     \* messages addressed to the assistant in one behaviour

\* --------------------------------------------------------------- constants
AssistantId == "ugoai"                       \* index.js:121, 139
Emojis == {"a", "b"}
NoTs == -1                                   \* no createdAt
NoId == 0                                    \* no _id / no document
MaxId == 1 + 2 * MaxEvents                   \* ids 1..MaxId are ObjectIds
Ids == 1..MaxId

\* A Message document (MessageSchema, index.js:47-55).
NoDoc == [id |-> NoId, sender |-> "", receiver |-> "", text |-> "", type |-> "",
          reactions |-> << >>, read |-> FALSE, createdAt |-> NoTs]

\* The document already in the collection when the server starts (the
\* collection outlives the process).
OldDoc == [id |-> 1, sender |-> "alice", receiver |-> "bob", text |-> "hi",
           type |-> "text", reactions |-> << >>, read |-> FALSE, createdAt |-> 1]

\* Payloads of the "message" event a client composes (index.js:115): they
\* carry sender, receiver, text and type, and neither _id nor createdAt.
Composed(sender, receiver, type) ==
  [id |-> NoId, sender |-> sender, receiver |-> receiver, text |-> "hi",
   type |-> type, reactions |-> << >>, read |-> FALSE, createdAt |-> NoTs]

FreshInputs ==
  { Composed("alice", "bob", "text"),
    Composed("alice", AssistantId, "image"),
    Composed(AssistantId, AssistantId, "text") }

\* What `await aiRes.json()` (index.js:137) can come back with, once fetch()
\* has resolved with a response:
\*   ok        - a body with choices[0].message.content a string
\*   badjson   - aiRes.json() rejects (the body is not JSON, or is cut short)
\*   nochoices - a JSON body without choices (an error response)
\*   nocontent - choices[0].message exists but has no content
\* A fetch() that rejects (index.js:123) is recorded as "neterr".
AiOutcomes == {"ok", "badjson", "nochoices", "nocontent"}

VARIABLES
  store,          \* the messages collection: id -> document or NoDoc
  nextId,         \* next ObjectId the driver generates
  clock,          \* Date.now(): each reading is later than the one before
  connected,      \* the sockets io.emit reaches
  nextSid,        \* next socket.id
  handlers,       \* the handler invocations, in the order the events arrived
  sent,           \* per socket: the packets written to it, in write order
  crashed,        \* the process has exited on an unhandled rejection
  published,      \* history: every io.emit, in call order
  persisted,      \* history: every inserted document, in insertion order
  deleted         \* history: ids removed by a completed findByIdAndDelete

vars == << store, nextId, clock, connected, nextSid, handlers, sent,
           crashed, published, persisted, deleted >>

Sids == 1..MaxSessions
HIdx == 1..Len(handlers)

Exists(st, id) == id \in Ids /\ st[id].id # NoId

\* ------------------------------------------------------------ Message model

\* new Message(msg) (index.js:116): every schema path the payload carries is
\* taken from it, _id and createdAt included; a payload without them gets a
\* fresh ObjectId and the default Date.now (index.js:54).
NewMessage(inp, fresh, now) ==
  [inp EXCEPT !.id = IF inp.id # NoId THEN inp.id ELSE fresh,
              !.createdAt = IF inp.createdAt # NoTs THEN inp.createdAt ELSE now]

\* A reply addressed to the receiver of the original instead of its sender.
NewReplyToReceiver(orig, content, fresh, now) ==
  [id |-> fresh, sender |-> AssistantId, receiver |-> orig.receiver,
   text |-> content, type |-> "text", reactions |-> << >>, read |-> FALSE,
   createdAt |-> now]

\* The reply object of index.js:138-145, as a document.
NewReply(orig, content, fresh, now) ==
  [id |-> fresh, sender |-> AssistantId, receiver |-> orig.sender,
   text |-> content, type |-> "text", reactions |-> << >>, read |-> FALSE,
   createdAt |-> now]

\* save() of a new document: insertOne; a duplicate _id is rejected.
CanInsert(st, d) == ~Exists(st, d.id)
InsertDoc(st, d) == [st EXCEPT ![d.id] = d]

\* A save() that replaced the stored document by the loaded copy, with every
\* field as it was when findById read it.
SaveReactionWholeDoc(st, loaded, emoji) ==
  [st EXCEPT ![loaded.id] = [loaded EXCEPT !.reactions = Append(@, emoji)]]

\* A save() that wrote the loaded reactions array back (read-modify-write).
SaveReactionRMW(st, loaded, emoji) ==
  [st EXCEPT ![loaded.id].reactions = Append(loaded.reactions, emoji)]

\* save() after reactions.push(emoji) (index.js:157-158): Mongoose sends the
\* array change as an atomic $push on the stored document, not the loaded copy.
SaveReaction(st, loaded, emoji) ==
  [st EXCEPT ![loaded.id].reactions = Append(@, emoji)]

\* A read mark that flipped the stored flag instead of setting it.
SaveReadToggle(st, loaded) == [st EXCEPT ![loaded.id].read = ~@]

\* save() after read = true (index.js:166-167): $set of the changed path.
SaveRead(st, loaded) == [st EXCEPT ![loaded.id].read = TRUE]

\* Message.findByIdAndDelete (index.js:173).
DeleteDoc(st, id) == [st EXCEPT ![id] = NoDoc]

\* -------------------------------------------------------------- fan-out

\* An outbound packet.  tag, id, emoji and doc are its payload; h (the handler
\* that emitted it) and seq (its rank among all io.emit calls) are bookkeeping.
Event(tag, id, emoji, doc, h) ==
  [tag |-> tag, id |-> id, emoji |-> emoji, doc |-> doc, h |-> h, seq |-> 0]

\* A fan-out that also wrote to the sockets that have disconnected.
EmitToAll(q, conn, ev) == [s \in Sids |-> Append(q[s], ev)]

\* An emit that put the new packet ahead of those written before.
EmitLifo(q, conn, ev) ==
  [s \in Sids |-> IF s \in conn THEN << ev >> \o q[s] ELSE q[s]]

\* io.emit (index.js:118, 147, 159, 168, 174): one packet written to each
\* connected socket, after the packets written to it before.  A socket's
\* transport carries its packets to the client in the order written, so what
\* a client has received is at every moment a prefix of sent[s].
Emit(q, conn, ev) ==
  [s \in Sids |-> IF s \in conn THEN Append(q[s], ev) ELSE q[s]]

\* ------------------------------------------------------------------- Init

Init ==
  /\ store \in { [i \in Ids |-> NoDoc],
                 [i \in Ids |-> IF i = 1 THEN OldDoc ELSE NoDoc] }
  /\ nextId = 2
  /\ clock = 1
  /\ connected = {}
  /\ nextSid = 1
  /\ handlers = << >>
  /\ sent = [s \in Sids |-> << >>]
  /\ crashed = FALSE
  /\ published = << >>
  /\ persisted = << >>
  /\ deleted = {}

\* ---------------------------------------------------------------- helpers

Handler(kind, sid, pc, id, emoji, doc) ==
  [kind |-> kind, sid |-> sid, pc |-> pc, id |-> id, emoji |-> emoji,
   doc |-> doc, reply |-> NoDoc, ai |-> "none", err |-> "none",
   res |-> "none"]

Publish(ev) ==
  LET e == [ev EXCEPT !.seq = Len(published) + 1] IN
  /\ sent' = Emit(sent, connected, e)
  /\ published' = Append(published, e)

\* An async handler whose awaited call rejects outside any try block: the
\* promise the handler returned is rejected and nobody handles it.  Node
\* ends the process (`fatal`, the default since Node 15) or only warns.
\* `why` records what rejected: "store" (the database call failed), "dup"
\* (duplicate _id) or "notfound" (VersionError / DocumentNotFoundError).
Reject(h, why, fatal) ==
  /\ handlers' = [handlers EXCEPT
       ![h].pc = "failed", ![h].err = why, ![h].res = "none"]
  /\ crashed' = fatal

Running == ~crashed
CanAccept(s) == Running /\ s \in connected /\ Len(handlers) < MaxEvents

\* A server that dropped the pending work of a socket when it disconnected.
CanContinueIfConnected(h) ==
  Running /\ h \in HIdx /\ handlers[h].sid \in connected

\* The continuation of handler h after an await (index.js:117, 123, 137, 146,
\* 155, 158, 164, 167, 173) runs when the awaited promise settles: the handler
\* closures never test socket.connected, and the "disconnect" handler
\* (index.js:177-179) cancels nothing.
CanContinue(h) == Running /\ h \in HIdx

\* An await that went on to the next line whatever the awaited call did.
SaveSettled(res) == TRUE

\* `await` of a Mongoose call (save, findById, findByIdAndDelete:
\* index.js:117, 146, 155, 158, 164, 167, 173): the line after the await runs
\* only when the call was carried out; a rejection throws past it.
SaveResolved(res) == res = "ok"

\* ------------------------------------------------------- session lifecycle

\* io.on("connection") (index.js:112-113).
Connect ==
  /\ Running
  /\ nextSid <= MaxSessions
  /\ connected' = connected \cup {nextSid}
  /\ nextSid' = nextSid + 1
  /\ UNCHANGED << store, nextId, clock, handlers, sent, crashed,
                  published, persisted, deleted >>

\* A teardown that took every socket out of the fan-out set.
UnregisterAll(conn, s) == {}

\* The sockets io.emit reaches once socket s has closed: socket.io removes
\* that one socket, and the "disconnect" handler (index.js:177-179) removes
\* nothing more.
Unregister(conn, s) == conn \ {s}

\* socket.on("disconnect") (index.js:177-179): the handler only logs; the
\* socket has left the set io.emit reaches.
Disconnect(s) ==
  /\ Running
  /\ s \in connected
  /\ connected' = Unregister(connected, s)
  /\ UNCHANGED << store, nextId, clock, nextSid, handlers, sent, crashed,
                  published, persisted, deleted >>

\* ------------------------------------------------------ "message" handler

\* The message handlers started so far whose payload is addressed to the
\* assistant (the test of index.js:121).
AssistantCalls ==
  Cardinality({h \in HIdx : /\ handlers[h].kind = "message"
                            /\ handlers[h].doc.receiver = AssistantId})

\* index.js:115-117 up to the first await: the document is constructed from
\* the payload and save() is issued.
OnMessage(s, inp) ==
  /\ CanAccept(s)
  /\ inp.receiver = AssistantId => AssistantCalls < MaxAiCalls
  /\ clock' = clock + 1
  /\ nextId' = nextId + 1
  /\ handlers' = Append(handlers,
       LET d == NewMessage(inp, nextId, clock')
       IN  Handler("message", s, "save", d.id, "", d))
  /\ UNCHANGED << store, connected, nextSid, sent, crashed,
                  published, persisted, deleted >>

\* Where the handler goes after io.emit of its own message (index.js:121).
AfterMessage(d) == IF d.receiver = AssistantId THEN "fetch" ELSE "done"

\* The insert sent by save() of a new document (index.js:117 and 146) is
\* carried out by the database: the document is stored, or the insert fails
\* (the database is unavailable, or the _id is taken).
InsertApplied(h, ok) ==
  /\ h \in HIdx
  /\ handlers[h].kind = "message" /\ handlers[h].pc \in {"save", "save2"}
  /\ LET first == handlers[h].pc = "save"
         d == IF first THEN handlers[h].doc ELSE handlers[h].reply
         next == IF first THEN "saved" ELSE "saved2"
     IN  IF ok /\ CanInsert(store, d)
         THEN /\ store' = InsertDoc(store, d)
              /\ persisted' = Append(persisted, d)
              /\ handlers' = [handlers EXCEPT ![h].pc = next, ![h].res = "ok"]
         ELSE /\ handlers' = [handlers EXCEPT
                   ![h].pc = next, ![h].res = IF ok THEN "dup" ELSE "store"]
              /\ UNCHANGED << store, persisted >>
  /\ UNCHANGED << nextId, clock, connected, nextSid, sent, crashed,
                  published, deleted >>

\* index.js:117-121: save() resolves, the message is emitted, and a message
\* to the assistant issues the fetch; or save() rejects.
MessageSaved(h, fatal) ==
  /\ CanContinue(h)
  /\ handlers[h].kind = "message" /\ handlers[h].pc = "saved"
  /\ LET d == handlers[h].doc IN
       IF SaveResolved(handlers[h].res)
       THEN /\ Publish(Event("message", d.id, "", d, h))
            /\ handlers' = [handlers EXCEPT
                 ![h].pc = AfterMessage(d), ![h].res = "none"]
            /\ UNCHANGED crashed
       ELSE /\ Reject(h, handlers[h].res, fatal)
            /\ UNCHANGED << sent, published >>
  /\ UNCHANGED << store, persisted, nextId, clock, connected, nextSid,
                  deleted >>

\* data.choices[0].message.content (index.js:141) for each outcome that does
\* not throw.
ReplyText(outcome) == IF outcome = "ok" THEN "reply" ELSE ""

\* Outcomes for which index.js:137-141 throws into the catch of line 148.
AiThrows(outcome) == outcome \in {"badjson", "nochoices"}

\* index.js:123-137: `await fetch(...)` settles.  A response (of any HTTP
\* status) makes the handler issue aiRes.json() and suspend again; a
\* rejection is caught by the catch of line 148 and logged.
FetchSettled(h, ok) ==
  /\ CanContinue(h)
  /\ handlers[h].kind = "message" /\ handlers[h].pc = "fetch"
  /\ handlers' = IF ok
                 THEN [handlers EXCEPT ![h].pc = "json"]
                 ELSE [handlers EXCEPT ![h].pc = "done", ![h].ai = "neterr"]
  /\ UNCHANGED << store, nextId, clock, connected, nextSid, sent, crashed,
                  published, persisted, deleted >>

\* index.js:137-146: `await aiRes.json()` settles; the reply is built and its
\* save() issued, or the error is caught and logged.
AiRespond(h, outcome) ==
  /\ CanContinue(h)
  /\ handlers[h].kind = "message" /\ handlers[h].pc = "json"
  /\ IF AiThrows(outcome)
     THEN /\ handlers' = [handlers EXCEPT ![h].pc = "done", ![h].ai = outcome]
          /\ UNCHANGED << clock, nextId >>
     ELSE /\ clock' = clock + 1
          /\ nextId' = nextId + 1
          /\ handlers' = [handlers EXCEPT
               ![h].pc = "save2", ![h].ai = outcome,
               ![h].reply = NewReply(handlers[h].doc, ReplyText(outcome),
                                     nextId, clock')]
  /\ UNCHANGED << store, connected, nextSid, sent, crashed,
                  published, persisted, deleted >>

\* A handler that treated its own reply as a new inbound message.
AfterReplyAsInbound(m) == AfterMessage(m)

\* Where the handler goes after io.emit of the reply m (index.js:147): the
\* try block ends; the reply is not passed to the test of line 121 again.
AfterReply(m) == "done"

\* index.js:146-150: the reply's save() resolves and the reply is emitted; a
\* rejection is caught by the catch of line 148.
ReplySaved(h) ==
  /\ CanContinue(h)
  /\ handlers[h].kind = "message" /\ handlers[h].pc = "saved2"
  /\ LET m == handlers[h].reply IN
       IF SaveResolved(handlers[h].res)
       THEN /\ Publish(Event("message", m.id, "", m, h))
            /\ handlers' = [handlers EXCEPT
                 ![h].pc = AfterReply(m), ![h].res = "none"]
       ELSE /\ handlers' = [handlers EXCEPT
                 ![h].pc = "done", ![h].err = "caught", ![h].res = "none"]
            /\ UNCHANGED << sent, published >>
  /\ UNCHANGED << store, persisted, nextId, clock, connected, nextSid,
                  crashed, deleted >>

\* ----------------------------------------------- "reaction" / "read" handlers

\* save() of a loaded document that is no longer in the collection: the
\* update matches nothing and Mongoose rejects the save (VersionError for
\* the versioned $push, DocumentNotFoundError for the $set and for a save
\* with nothing to write).
StaleSaveRejects(st, loaded) == ~Exists(st, loaded.id)

\* index.js:154-155 and 163-164 up to the await: findById is issued.
OnLookup(s, kind, id, emoji) ==
  /\ CanAccept(s)
  /\ handlers' = Append(handlers, Handler(kind, s, "find", id, emoji, NoDoc))
  /\ UNCHANGED << store, nextId, clock, connected, nextSid, sent, crashed,
                  published, persisted, deleted >>

OnReaction(s, id, emoji) == OnLookup(s, "reaction", id, emoji)
OnRead(s, id) == OnLookup(s, "read", id, "")

\* A lookup that skipped the `if (msg)` test and went on to save either way.
AfterLookupUnguarded(found) == "save"

\* `if (msg)` (index.js:156 and 165): only a found document is changed and
\* saved; on null the handler returns.
AfterLookup(found) == IF found THEN "save" ELSE "done"

\* The query sent by Message.findById (index.js:155 and 164) is answered by
\* the database: the handler's copy is the document as stored at that
\* moment, or null for an absent id.
FindApplied(h, ok) ==
  /\ h \in HIdx
  /\ handlers[h].kind \in {"reaction", "read"} /\ handlers[h].pc = "find"
  /\ handlers' = IF ok
                 THEN [handlers EXCEPT ![h].pc = "found", ![h].res = "ok",
                                       ![h].doc = store[handlers[h].id]]
                 ELSE [handlers EXCEPT ![h].pc = "found", ![h].res = "store"]
  /\ UNCHANGED << store, nextId, clock, connected, nextSid, sent, crashed,
                  published, persisted, deleted >>

\* index.js:155-158 and 164-167: findById resolves; a missing document ends
\* the handler, a found one is changed in memory and its save() issued; or
\* findById rejects.
Found(h, fatal) ==
  /\ CanContinue(h)
  /\ handlers[h].kind \in {"reaction", "read"} /\ handlers[h].pc = "found"
  /\ IF SaveResolved(handlers[h].res)
     THEN /\ handlers' = [handlers EXCEPT
               ![h].pc = AfterLookup(handlers[h].doc.id # NoId),
               ![h].res = "none"]
          /\ UNCHANGED crashed
     ELSE Reject(h, handlers[h].res, fatal)
  /\ UNCHANGED << store, nextId, clock, connected, nextSid, sent,
                  published, persisted, deleted >>

\* The update sent by save() of a loaded document (index.js:158 and 167) is
\* carried out by the database: the $push of the reaction, or the $set of
\* read (a loaded document that was already read has no changed path to
\* write, and is only looked for).
UpdateApplied(h, ok) ==
  /\ h \in HIdx
  /\ handlers[h].kind \in {"reaction", "read"} /\ handlers[h].pc = "save"
  /\ LET loaded == handlers[h].doc IN
       IF ~ok \/ StaleSaveRejects(store, loaded)
       THEN /\ handlers' = [handlers EXCEPT
                 ![h].pc = "saved",
                 ![h].res = IF ok THEN "notfound" ELSE "store"]
            /\ UNCHANGED store
       ELSE /\ store' = IF handlers[h].kind = "reaction"
                        THEN SaveReaction(store, loaded, handlers[h].emoji)
                        ELSE IF loaded.read THEN store
                        ELSE SaveRead(store, loaded)
            /\ handlers' = [handlers EXCEPT ![h].pc = "saved", ![h].res = "ok"]
  /\ UNCHANGED << nextId, clock, connected, nextSid, sent, crashed,
                  published, persisted, deleted >>

\* index.js:158-159: save() resolves and the reaction is emitted; or save()
\* rejects.
ReactionSaved(h, fatal) ==
  /\ CanContinue(h)
  /\ handlers[h].kind = "reaction" /\ handlers[h].pc = "saved"
  /\ IF SaveResolved(handlers[h].res)
     THEN /\ Publish(Event("reaction", handlers[h].doc.id, handlers[h].emoji,
                           NoDoc, h))
          /\ handlers' = [handlers EXCEPT ![h].pc = "done", ![h].res = "none"]
          /\ UNCHANGED crashed
     ELSE /\ Reject(h, handlers[h].res, fatal)
          /\ UNCHANGED << sent, published >>
  /\ UNCHANGED << store, nextId, clock, connected, nextSid,
                  persisted, deleted >>

\* index.js:167-168: save() resolves and the read mark is emitted; or save()
\* rejects.
ReadSaved(h, fatal) ==
  /\ CanContinue(h)
  /\ handlers[h].kind = "read" /\ handlers[h].pc = "saved"
  /\ IF SaveResolved(handlers[h].res)
     THEN /\ Publish(Event("read", handlers[h].doc.id, "", NoDoc, h))
          /\ handlers' = [handlers EXCEPT ![h].pc = "done", ![h].res = "none"]
          /\ UNCHANGED crashed
     ELSE /\ Reject(h, handlers[h].res, fatal)
          /\ UNCHANGED << sent, published >>
  /\ UNCHANGED << store, nextId, clock, connected, nextSid,
                  persisted, deleted >>

\* ------------------------------------------------------- "delete" handler

\* index.js:172-173 up to the await: findByIdAndDelete is issued.
OnDelete(s, id) ==
  /\ CanAccept(s)
  /\ handlers' = Append(handlers, Handler("delete", s, "del", id, "", NoDoc))
  /\ UNCHANGED << store, nextId, clock, connected, nextSid, sent, crashed,
                  published, persisted, deleted >>

\* Whether the delete handler emits after findByIdAndDelete resolved with
\* `found` (the removed document, or null): index.js:174 emits either way.
EmitsDelete(found) == TRUE

\* The findOneAndDelete sent by Message.findByIdAndDelete (index.js:173) is
\* carried out by the database: the document, if stored, is removed and
\* handed back; an absent id hands back null.
DeleteApplied(h, ok) ==
  /\ h \in HIdx
  /\ handlers[h].kind = "delete" /\ handlers[h].pc = "del"
  /\ LET id == handlers[h].id
         found == Exists(store, id) IN
       IF ok
       THEN /\ store' = IF found THEN DeleteDoc(store, id) ELSE store
            /\ deleted' = IF found THEN deleted \cup {id} ELSE deleted
            /\ handlers' = [handlers EXCEPT
                 ![h].pc = "deleted", ![h].res = "ok",
                 ![h].doc = IF found THEN store[id] ELSE NoDoc]
       ELSE /\ handlers' = [handlers EXCEPT
                 ![h].pc = "deleted", ![h].res = "store"]
            /\ UNCHANGED << store, deleted >>
  /\ UNCHANGED << nextId, clock, connected, nextSid, sent, crashed,
                  published, persisted >>

\* index.js:173-174: findByIdAndDelete resolves and the delete is emitted; or
\* it rejects.
Deleted(h, fatal) ==
  /\ CanContinue(h)
  /\ handlers[h].kind = "delete" /\ handlers[h].pc = "deleted"
  /\ IF SaveResolved(handlers[h].res)
     THEN /\ IF EmitsDelete(handlers[h].doc.id # NoId)
             THEN Publish(Event("delete", handlers[h].id, "", NoDoc, h))
             ELSE UNCHANGED << sent, published >>
          /\ handlers' = [handlers EXCEPT ![h].pc = "done", ![h].res = "none"]
          /\ UNCHANGED crashed
     ELSE /\ Reject(h, handlers[h].res, fatal)
          /\ UNCHANGED << sent, published >>
  /\ UNCHANGED << store, nextId, clock, connected, nextSid,
                  persisted, deleted >>

\* ------------------------------------------------------------------- Next

\* Ids a client can name: those of the documents it has been sent or that
\* were in the collection, i.e. every id generated so far.
KnownIds == 1..(nextId - 1)

\* A client may also send back a message object it received earlier, as it
\* was broadcast, with its _id and createdAt.
ReplayInputs == {OldDoc} \cup { persisted[i] : i \in 1..Len(persisted) }

MsgInputs == FreshInputs \cup ReplayInputs

Next ==
  \/ Connect
  \/ \E s \in Sids : Disconnect(s)
  \/ \E s \in Sids, inp \in MsgInputs : OnMessage(s, inp)
  \/ \E h \in HIdx, ok \in BOOLEAN : InsertApplied(h, ok)
  \/ \E h \in HIdx, fatal \in BOOLEAN : MessageSaved(h, fatal)
  \/ \E h \in HIdx, ok \in BOOLEAN : FetchSettled(h, ok)
  \/ \E h \in HIdx, outcome \in AiOutcomes : AiRespond(h, outcome)
  \/ \E h \in HIdx : ReplySaved(h)
  \/ \E s \in Sids, id \in KnownIds, e \in Emojis : OnReaction(s, id, e)
  \/ \E s \in Sids, id \in KnownIds : OnRead(s, id)
  \/ \E h \in HIdx, ok \in BOOLEAN : FindApplied(h, ok)
  \/ \E h \in HIdx, fatal \in BOOLEAN : Found(h, fatal)
  \/ \E h \in HIdx, ok \in BOOLEAN : UpdateApplied(h, ok)
  \/ \E h \in HIdx, fatal \in BOOLEAN : ReactionSaved(h, fatal)
  \/ \E h \in HIdx, fatal \in BOOLEAN : ReadSaved(h, fatal)
  \/ \E s \in Sids, id \in KnownIds : OnDelete(s, id)
  \/ \E h \in HIdx, ok \in BOOLEAN : DeleteApplied(h, ok)
  \/ \E h \in HIdx, fatal \in BOOLEAN : Deleted(h, fatal)

Spec == Init /\ [][Next]_vars

\* The steps of the database and those the server takes once a database
\* call it issued has settled.
\* The database is taken to answer every call (with a result or an error) and
\* Node to run the continuation; nothing in index.js makes the completion
\* service answer, and no timer is armed around the fetch of line 123 or the
\* body read of line 137.
DbStep ==
  \E h \in HIdx, ok, fatal \in BOOLEAN :
    \/ InsertApplied(h, ok)
    \/ MessageSaved(h, fatal)
    \/ ReplySaved(h)
    \/ FindApplied(h, ok)
    \/ Found(h, fatal)
    \/ UpdateApplied(h, ok)
    \/ ReactionSaved(h, fatal)
    \/ ReadSaved(h, fatal)
    \/ DeleteApplied(h, ok)
    \/ Deleted(h, fatal)

LiveSpec == Spec /\ WF_vars(DbStep)

\* ================================================================ claims

Final(h) == handlers[h].pc \in {"done", "failed"}
ReactionHandlers(id) ==
  {h \in HIdx : handlers[h].kind = "reaction" /\ handlers[h].id = id}
DeleteIssued(id) ==
  \E h \in HIdx : handlers[h].kind = "delete" /\ handlers[h].id = id
Count(seq, e) == Cardinality({i \in 1..Len(seq) : seq[i] = e})
PublishedBy(h) == {i \in 1..Len(published) : published[i].h = h}

\* C1: for a stored message on which no Delete was issued, once every
\* Reaction handler on its id has completed, its reactions list holds each
\* symbol exactly as many times as handlers that found the message pushed it,
\* however the handlers interleaved between their findById and their save.
C1_NoLostReactions ==
  \A id \in Ids :
    ( /\ Exists(store, id)
      /\ ~DeleteIssued(id)
      /\ \A h \in ReactionHandlers(id) : handlers[h].pc = "done" )
    => \A e \in Emojis :
         Count(store[id].reactions, e) =
           Cardinality({h \in ReactionHandlers(id) :
                          handlers[h].emoji = e /\ handlers[h].doc.id # NoId})

\* Two Reaction handlers on one message that both loaded it before either
\* saved, and both completed.
C1_Witness ==
  \E h1, h2 \in HIdx :
    /\ h1 # h2
    /\ handlers[h1].kind = "reaction" /\ handlers[h2].kind = "reaction"
    /\ handlers[h1].id = handlers[h2].id
    /\ handlers[h1].pc = "done" /\ handlers[h2].pc = "done"
    /\ handlers[h1].doc.id # NoId /\ handlers[h2].doc.id # NoId
    /\ handlers[h1].doc.reactions = << >> /\ handlers[h2].doc.reactions = << >>
    /\ Len(store[handlers[h1].id].reactions) = 2

\* C2: every outbound Delete was emitted by a handler whose findByIdAndDelete
\* removed a document; a Delete of an absent id emits nothing.
C2_AbsentDeleteDropped ==
  \A i \in 1..Len(published) :
    published[i].tag = "delete" => handlers[published[i].h].doc.id # NoId

\* C3: an event of a session is not handled while the handler of an earlier
\* event of the same session is still suspended.
C3_PerSessionSerial ==
  \A h1, h2 \in HIdx :
    (h1 < h2 /\ handlers[h1].sid = handlers[h2].sid) => Final(h1)

\* C4: a handler whose database call failed has emitted nothing, and the
\* process is still running and accepts later events.
C4_StoreFailurePerRequest ==
  \A h \in HIdx :
    handlers[h].err = "store" => (~crashed /\ PublishedBy(h) = {})

AwaitingAi(h) == h \in HIdx /\ handlers[h].pc \in {"fetch", "json"}

\* C5: every handler that has issued the assistant call eventually finishes
\* (or the process has exited), whether or not the completion service answers.
C5_AssistantCallBounded ==
  \A h \in 1..MaxEvents :
    AwaitingAi(h) ~> ((h \in HIdx /\ Final(h)) \/ crashed)

\* C6: an id removed by a completed Delete is never in the store again.
C6_DeletedStaysDead == \A id \in deleted : ~Exists(store, id)

\* C7: seq numbers the io.emit calls in call order, and every socket was
\* written its packets in strictly increasing seq: of two packets a client is
\* sent, it receives first the one that was published first.
C7_PerObserverFifo ==
  /\ \A k \in 1..Len(published) : published[k].seq = k
  /\ \A s \in Sids :
       /\ \A i \in 1..Len(sent[s]) : sent[s][i] = published[sent[s][i].seq]
       /\ \A i, j \in 1..Len(sent[s]) :
            i < j => sent[s][i].seq < sent[s][j].seq

\* A socket that was written a message to the assistant, then a packet of
\* another handler, then the asynchronous reply to that message.
C7_Witness ==
  \E s \in Sids : \E i, j, k \in 1..Len(sent[s]) :
    /\ i < j /\ j < k
    /\ sent[s][i].h = sent[s][k].h
    /\ sent[s][j].h # sent[s][i].h
    /\ sent[s][k].doc = handlers[sent[s][k].h].reply
    /\ sent[s][k].doc.id # NoId

\* C8: the documents are inserted in non-decreasing order of createdAt, each
\* under a non-empty id.
C8_TimestampsMonotone ==
  \A i, j \in 1..Len(persisted) :
    /\ persisted[i].id # NoId
    /\ i < j => persisted[i].createdAt <= persisted[j].createdAt

IsEventOf(ev, h, d) == ev.tag = "message" /\ ev.h = h /\ ev.doc = d
AiCalled(h) ==
  handlers[h].pc \in {"fetch", "json", "save2", "saved2"}
    \/ handlers[h].ai # "none"

\* C9: a message handler calls the assistant exactly when the receiver is the
\* assistant id.  When the call returned a reply and the reply's save was not
\* rejected, the reply (sender the assistant id, receiver the original sender,
\* type text) is in the store's insert log and was emitted after the original
\* message; every connected socket that was written the original, and the
\* originator's socket if still connected, was written the reply after it;
\* and no socket was written the reply before the original.
C9_AssistantRoundTrip ==
  \A h \in HIdx : handlers[h].kind = "message" =>
    LET d == handlers[h].doc
        r == handlers[h].reply
    IN  /\ AiCalled(h) => d.receiver = AssistantId
        /\ (handlers[h].pc = "done" /\ d.receiver = AssistantId) => AiCalled(h)
        /\ (handlers[h].pc = "done" /\ handlers[h].ai = "ok"
              /\ handlers[h].err = "none") =>
             /\ r.sender = AssistantId /\ r.receiver = d.sender /\ r.type = "text"
             /\ \E n \in 1..Len(persisted) : persisted[n] = r
             /\ \E i, j \in 1..Len(published) :
                  i < j /\ IsEventOf(published[i], h, d)
                        /\ IsEventOf(published[j], h, r)
             /\ \A s \in connected :
                  (s = handlers[h].sid
                     \/ \E i \in 1..Len(sent[s]) : IsEventOf(sent[s][i], h, d))
                  => \E i, j \in 1..Len(sent[s]) :
                       i < j /\ IsEventOf(sent[s][i], h, d)
                             /\ IsEventOf(sent[s][j], h, r)
        /\ \A s \in Sids : \A i, j \in 1..Len(sent[s]) :
             (IsEventOf(sent[s][i], h, r) /\ IsEventOf(sent[s][j], h, d)) => j < i

\* An image message to the assistant whose reply was obtained, stored and
\* written after the original to two connected sockets.
C9_Witness ==
  \E h \in HIdx :
    /\ handlers[h].kind = "message" /\ handlers[h].pc = "done"
    /\ handlers[h].ai = "ok" /\ handlers[h].err = "none"
    /\ handlers[h].doc.type = "image"
    /\ Cardinality(connected) = 2
    /\ \A s \in connected : \E i, j \in 1..Len(sent[s]) :
         i < j /\ IsEventOf(sent[s][i], h, handlers[h].doc)
               /\ IsEventOf(sent[s][j], h, handlers[h].reply)

AiFailures == {"neterr", "badjson", "nochoices", "nocontent"}

\* C10: a handler whose assistant call failed emitted its own message and
\* nothing else, stored no reply, and its own message was stored.
C10_AssistantFailureSilent ==
  \A h \in HIdx :
    (handlers[h].kind = "message" /\ handlers[h].ai \in AiFailures) =>
      /\ \A n \in 1..Len(persisted) : persisted[n] # handlers[h].reply
      /\ \A i \in PublishedBy(h) : published[i].doc = handlers[h].doc
      /\ \E n \in 1..Len(persisted) : persisted[n] = handlers[h].doc

LookupHandler(h) == handlers[h].kind \in {"reaction", "read"}

\* C11: a reaction or read handler whose findById found no document (or
\* failed) ends there and never emits; the steps in which the lookup of an
\* absent id is answered and in which the handler continues after it leave
\* the store and every socket untouched.
C11_AbsentLookupDropped ==
  /\ [](\A h \in HIdx :
          (LookupHandler(h) /\ handlers[h].doc.id = NoId) =>
            /\ handlers[h].pc \in {"find", "found", "done", "failed"}
            /\ PublishedBy(h) = {})
  /\ [][\A h \in HIdx :
          ( /\ LookupHandler(h)
            /\ \/ handlers[h].pc = "find" /\ ~Exists(store, handlers[h].id)
               \/ handlers[h].pc = "found" /\ handlers[h].doc.id = NoId
            /\ handlers'[h].pc # handlers[h].pc )
          => /\ store' = store
             /\ published' = published
             /\ sent' = sent]_vars

\* A reaction and a read mark on an id that is not stored, both completed
\* without error while a socket is connected.
C11_Witness ==
  \E h1, h2 \in HIdx :
    /\ handlers[h1].kind = "reaction" /\ handlers[h2].kind = "read"
    /\ handlers[h1].pc = "done" /\ handlers[h2].pc = "done"
    /\ handlers[h1].err = "none" /\ handlers[h2].err = "none"
    /\ handlers[h1].doc.id = NoId /\ handlers[h2].doc.id = NoId
    /\ connected # {}

\* C12: a step never takes the read flag of a stored message from true to
\* false while the message stays stored, whichever handler takes the step.
C12_ReadNeverReverts ==
  [][\A id \in Ids :
       (Exists(store, id) /\ store[id].read /\ Exists(store', id))
         => store'[id].read]_vars

\* A reaction handler that loaded the message while it was unread and saved
\* its reaction after a read handler had marked the message read.
C12_Witness ==
  \E h1, h2 \in HIdx :
    /\ handlers[h1].kind = "reaction" /\ handlers[h2].kind = "read"
    /\ handlers[h1].id = handlers[h2].id
    /\ handlers[h1].pc = "done" /\ handlers[h2].pc = "done"
    /\ handlers[h1].doc.id # NoId /\ ~handlers[h1].doc.read
    /\ handlers[h2].doc.reactions = << >>
    /\ Exists(store, handlers[h1].id)
    /\ store[handlers[h1].id].read
    /\ store[handlers[h1].id].reactions = << handlers[h1].emoji >>

\* The step taken for handler h when what it awaits succeeds.
Completes(h) ==
  \/ InsertApplied(h, TRUE)
  \/ MessageSaved(h, FALSE)
  \/ FetchSettled(h, TRUE)
  \/ AiRespond(h, "ok")
  \/ ReplySaved(h)
  \/ FindApplied(h, TRUE)
  \/ Found(h, FALSE)
  \/ UpdateApplied(h, TRUE)
  \/ ReactionSaved(h, FALSE)
  \/ ReadSaved(h, FALSE)
  \/ DeleteApplied(h, TRUE)
  \/ Deleted(h, FALSE)

\* C13: while the server runs, a suspended handler whose socket has
\* disconnected can still take its next step; and when a handler of a
\* disconnected socket emits, the packet is written to every connected socket
\* and nothing is written to a socket that is not connected.
C13_DisconnectCancelsNothing ==
  /\ [](\A h \in HIdx :
          (Running /\ ~Final(h) /\ handlers[h].sid \notin connected)
            => ENABLED Completes(h))
  /\ [][( /\ Len(published') = Len(published) + 1
          /\ handlers[published'[Len(published')].h].sid \notin connected )
        => \A s \in Sids :
             sent'[s] = IF s \in connected
                        THEN Append(sent[s], published'[Len(published')])
                        ELSE sent[s]]_vars

\* A message to the assistant whose socket disconnected before its save
\* resolved: the message and the reply were both stored and written to the
\* socket that stayed, and nothing was written to the one that left.
C13_Witness ==
  \E h \in HIdx :
    /\ handlers[h].kind = "message" /\ handlers[h].pc = "done"
    /\ handlers[h].ai = "ok" /\ handlers[h].err = "none"
    /\ handlers[h].sid \notin connected
    /\ sent[handlers[h].sid] = << >>
    /\ Exists(store, handlers[h].doc.id) /\ Exists(store, handlers[h].reply.id)
    /\ \E s \in connected : \E i, j \in 1..Len(sent[s]) :
         i < j /\ IsEventOf(sent[s][i], h, handlers[h].doc)
               /\ IsEventOf(sent[s][j], h, handlers[h].reply)

\* C14: a step that emits writes the packet once to each socket connected at
\* that moment and leaves every other socket as it was; a step that does not
\* emit writes to no socket; and no socket holds the same packet twice.
C14_FanOutToLiveSessions ==
  /\ [][IF Len(published') = Len(published) + 1
        THEN \A s \in Sids :
               sent'[s] = IF s \in connected
                          THEN Append(sent[s], published'[Len(published')])
                          ELSE sent[s]
        ELSE published' = published /\ sent' = sent]_vars
  /\ [](\A s \in Sids : \A k \in 1..Len(published) :
          Count(sent[s], published[k]) <= 1)

\* Two packets were emitted; one socket was connected for both and holds
\* both, the other disconnected between them and holds only the first.
C14_Witness ==
  \E s1 \in connected : \E s2 \in Sids \ connected :
    /\ Len(published) = 2
    /\ sent[s1] = published
    /\ sent[s2] = << published[1] >>

ReadMarkDone(h, id) ==
  /\ handlers[h].kind = "read" /\ handlers[h].id = id
  /\ handlers[h].pc = "done" /\ handlers[h].doc.id # NoId

\* C15: when two read handlers on one stored message have both completed
\* (and nothing else touched the message), the stored document is the one
\* they loaded with read = true and no other field changed, neither handler
\* failed, and each emitted exactly one "read" packet for the id.
C15_MarkReadIdempotent ==
  \A id \in Ids : \A h1, h2 \in HIdx :
    ( /\ h1 # h2
      /\ ReadMarkDone(h1, id) /\ ReadMarkDone(h2, id)
      /\ ~DeleteIssued(id) /\ ReactionHandlers(id) = {} )
    => /\ Exists(store, id)
       /\ store[id] = [handlers[h1].doc EXCEPT !.read = TRUE]
       /\ store[id] = [handlers[h2].doc EXCEPT !.read = TRUE]
       /\ \A h \in {h1, h2} :
            /\ handlers[h].err = "none"
            /\ Cardinality(PublishedBy(h)) = 1
            /\ \A i \in PublishedBy(h) :
                 published[i].tag = "read" /\ published[i].id = id

\* A second read mark that loaded the message after the first had already
\* marked it read, and completed.
C15_Witness ==
  \E h1, h2 \in HIdx :
    /\ h1 # h2
    /\ ReadMarkDone(h1, handlers[h1].id) /\ ReadMarkDone(h2, handlers[h1].id)
    /\ ~handlers[h1].doc.read /\ handlers[h2].doc.read
    /\ store[handlers[h1].id].read
    /\ Len(published) = 2

\* C16: a step in which a socket leaves takes exactly that one socket out of
\* the connected set and changes nothing else: not the store, the insert
\* log, the suspended handlers, what was emitted or what any socket was
\* written; and a socket that is not connected cannot leave again.
C16_DisconnectNoSideEffects ==
  /\ [][connected' # connected /\ ~(connected \subseteq connected')
        => /\ \E s \in connected : connected' = connected \ {s}
           /\ UNCHANGED << store, persisted, deleted, handlers, published,
                           sent, crashed, nextId, clock, nextSid >>]_vars
  /\ [](\A s \in Sids \ connected : ~ENABLED Disconnect(s))

\* One socket connected and left, then the other left too; a packet emitted
\* in between was written to the socket that was still connected and not to
\* the one that had gone, and the message it carries is still stored.
C16_Witness ==
  /\ nextSid > MaxSessions /\ connected = {}
  /\ \E s1, s2 \in Sids :
       /\ s1 # s2
       /\ sent[s1] = << >>
       /\ Len(sent[s2]) = 1
       /\ sent[s2][1].tag = "message"
       /\ Exists(store, sent[s2][1].id)
       /\ handlers[sent[s2][1].h].sid = s1

\* The document the pending insert of message handler h carries.
Inserting(h) ==
  IF handlers[h].pc = "save" THEN handlers[h].doc ELSE handlers[h].reply

\* C17: a step that emits a message, a reaction or a read mark is taken by a
\* handler whose save had been carried out successfully in an earlier step
\* (an emitted message is in the insert log before the step); and a write
\* counts as carried out only in a step that makes it: the document is
\* inserted, the symbol appended to the stored reactions, or the stored
\* message is read.
C17_PublishAfterPersist ==
  /\ [][Len(published') = Len(published) + 1 =>
          LET e == published'[Len(published')] IN
            e.tag \in {"message", "reaction", "read"} =>
              /\ handlers[e.h].pc \in {"saved", "saved2"}
              /\ handlers[e.h].res = "ok"
              /\ e.tag = "message" =>
                   \E n \in 1..Len(persisted) : persisted[n] = e.doc]_vars
  /\ [][\A h \in HIdx :
          ( /\ handlers[h].pc \in {"save", "save2"}
            /\ handlers'[h].pc \in {"saved", "saved2"}
            /\ handlers'[h].res = "ok" ) =>
            LET id == handlers[h].id IN
            /\ handlers[h].kind = "message" =>
                 /\ persisted' = Append(persisted, Inserting(h))
                 /\ store'[Inserting(h).id] = Inserting(h)
            /\ handlers[h].kind = "reaction" =>
                 /\ Exists(store, id)
                 /\ store'[id].reactions =
                      Append(store[id].reactions, handlers[h].emoji)
            /\ handlers[h].kind = "read" =>
                 Exists(store', id) /\ store'[id].read]_vars

\* A message was stored and emitted, and a reaction to it was appended to the
\* stored message and emitted.
C17_Witness ==
  \E h1, h2 \in HIdx :
    /\ handlers[h1].kind = "message" /\ handlers[h1].pc = "done"
    /\ handlers[h2].kind = "reaction" /\ handlers[h2].pc = "done"
    /\ handlers[h2].id = handlers[h1].doc.id
    /\ Exists(store, handlers[h2].id)
    /\ store[handlers[h2].id].reactions = << handlers[h2].emoji >>
    /\ \E i, j \in 1..Len(published) :
         /\ i < j
         /\ published[i].tag = "message" /\ published[i].h = h1
         /\ published[j].tag = "reaction" /\ published[j].h = h2

\* C18: after a "delete" packet for an id, no "reaction" or "read" packet
\* for the same id is emitted.
C18_NoMutationAfterDelete ==
  \A i, j \in 1..Len(published) :
    ( /\ i < j
      /\ published[i].tag = "delete"
      /\ published[j].tag \in {"reaction", "read"} )
    => published[j].id # published[i].id

MessageHandlers == {h \in HIdx : handlers[h].kind = "message"}

\* C19: a message handler emits at most two packets, its own message and
\* then at most one reply; once its reply is emitted the handler is over, so
\* the reply starts no further assistant call; and the server constructs at
\* most two documents for each inbound message.
C19_AtMostOneReply ==
  /\ \A h \in MessageHandlers :
       /\ Cardinality(PublishedBy(h)) <= 2
       /\ \A i, j \in PublishedBy(h) :
            i < j => /\ published[i].doc = handlers[h].doc
                     /\ published[j].doc = handlers[h].reply
                     /\ handlers[h].pc = "done"
  /\ nextId - 2 <= 2 * Cardinality(MessageHandlers)

\* A message whose sender and receiver are both the assistant id: its reply
\* is addressed to the assistant, was stored and emitted, and the handler
\* ended there.
C19_Witness ==
  \E h \in MessageHandlers :
    /\ handlers[h].doc.sender = AssistantId
    /\ handlers[h].doc.receiver = AssistantId
    /\ handlers[h].ai = "ok" /\ handlers[h].err = "none"
    /\ handlers[h].pc = "done"
    /\ handlers[h].reply.receiver = AssistantId
    /\ Exists(store, handlers[h].reply.id)
    /\ Cardinality(PublishedBy(h)) = 2

====
